---- MODULE Spec2Model ----
(***************************************************************************)
(* Multi-source content dashboard.                                         *)
(*                                                                         *)
(* Two controllers live in the repository:                                 *)
(*  - the column dashboard (tech-pulse/src/App.jsx): one store record per  *)
(*    column, loadColumn / refreshAll / addColumn / removeColumn;          *)
(*  - the single-feed dashboard (unnamed/part_000): one item list filled   *)
(*    by refresh().                                                        *)
(* Both run on a JavaScript event loop: a handler runs to its first await, *)
(* the continuation of an awaited fetch runs when the fetch settles, and   *)
(* the rejections caused by AbortController.abort() are delivered in the   *)
(* microtasks of the task that called abort(), before any later event.     *)
(***************************************************************************)
EXTENDS Integers, Sequences, FiniteSets, TLC

\* ------------------------------------------------------------------ bounds
MaxOps == 2         \* user operations after the mount; see ops
NumSuffix == 1      \* distinct random suffixes addColumn can draw
PageLen == 2        \* items on one upstream page
MaxText == 2        \* characters of a filter text
MaxBuf == 2         \* items of a buffer whose projection is computed

\* ------------------------------------------------------------ column board
\* columns, store and abortRef are the state of App; inflight holds the
\* loadColumn calls suspended at their await. run, noMore and ops are history
\* variables: run records, per column, the refresh and the loadMore calls the
\* claims speak of; noMore holds the columns to which a response with
\* hasMore = false has been applied with no refresh call, refresh response or
\* state reset since; ops weighs the user operations handled so far, a
\* "Load More" click that dispatches as one and every other operation as two,
\* and is kept within 2 * MaxOps.
VARIABLES columns, store, abortRef, inflight, run, noMore, ops

boardVars == <<columns, store, abortRef, inflight, run, noMore>>

\* -------------------------------------------------------------- single feed
\* items, loading, partialLoading and errors are the state of the feed's App,
\* feedAbortRef is its abortRef, and calls holds the refresh() calls suspended
\* at Promise.all with their local results and nextErrors.
VARIABLES items, loading, partialLoading, errors, feedAbortRef, calls

feedVars == <<items, loading, partialLoading, errors, feedAbortRef, calls>>

\* ------------------------------------------------------------ pure functions
\* globalSearch is the filter text of App (the board's search box). payload
\* and emitted are the argument and the result of one adapter mapping: an
\* upstream record and the items the adapter makes of it. For a whole adapter
\* call, payload is the call with the upstream answer and returned is what the
\* adapter sent and what it returned.
VARIABLES globalSearch, payload, emitted, returned

\* searchText, sortBy and sourceFilter are the controls of the feed's view.
VARIABLES searchText, sortBy, sourceFilter

viewVars == <<searchText, sortBy, sourceFilter>>

argVars == <<globalSearch, payload, emitted, returned, viewVars>>

vars == <<boardVars, feedVars, ops, argVars>>

Types == {"hn", "reddit", "nasa", "quote"}

\* A column id: "col_hn" is <<"hn", 0>>, "col_hn_<hex>" is <<"hn", s>>, s >= 1.
Ids == Types \X (0 .. NumSuffix)

TypeOf(id) == id[1]

NoAfter == 0

NoRec == [absent |-> TRUE]

NewRecord(type) ==
  IF type \in {"hn", "reddit"}
  THEN [items |-> <<>>, loading |-> FALSE, error |-> "", page |-> 0, after |-> NoAfter, hasMore |-> TRUE]
  ELSE [items |-> <<>>, loading |-> FALSE, error |-> "", page |-> 0, after |-> NoAfter, hasMore |-> FALSE]

InColumns(id) == \E i \in DOMAIN columns : columns[i] = id

Paginated(id) == TypeOf(id) \in {"hn", "reddit"}

\* --------------------------------------------------------------- adapters
\* The items of one upstream page: the upstream ids decide the item ids, so
\* two requests for the same page of the same API return the same items.
Hits(type, cursor) == [i \in 1 .. PageLen |-> <<type, cursor, i>>]

\* Mutation: the last page still reports more.
fetchHNInclusive(page, data) ==
  [items |-> data.hits,
   next |-> page + 1,
   hasMore |-> IF data.nbPages.isNumber THEN page + 1 <= data.nbPages.value ELSE FALSE]

\* fetchHN: data = [hits, nbPages]; nbPages is a number or missing.
fetchHN(page, data) ==
  [items |-> data.hits,
   next |-> page + 1,
   hasMore |-> IF data.nbPages.isNumber THEN page + 1 < data.nbPages.value ELSE FALSE]

\* A token is a positive number; null is NoAfter, and a missing or empty
\* `after` of an answer is UndefinedAfter. Neither is truthy.
UndefinedAfter == -1

Truthy(token) == token \notin {NoAfter, UndefinedAfter}

\* fetchReddit with the query box empty (no client-side filter):
\* data = [children, after]; after is a token, null or missing.
fetchReddit(after, data) ==
  LET nextAfter == IF Truthy(data.after) THEN data.after ELSE NoAfter
  IN [items |-> data.children,
      next |-> nextAfter,
      hasMore |-> Truthy(nextAfter)]

\* The payloads an upstream can answer a request with: the page asked for,
\* and a page count below, at and above the next page index (or none).
HNPayloads(page) ==
  { [hits |-> Hits("hn", page), nbPages |-> nb] :
      nb \in {[isNumber |-> FALSE, value |-> 0]}
             \cup {[isNumber |-> TRUE, value |-> n] : n \in 0 .. page + 2} }

\* The token that follows page `after` is after + 1; the last page has none.
RedditPayloads(after) ==
  { [children |-> Hits("reddit", after), after |-> a] : a \in {NoAfter, after + 1} }

Responses(r) ==
  IF TypeOf(r.id) = "hn"
  THEN { fetchHN(r.cursor, d) : d \in HNPayloads(r.cursor) }
  ELSE { fetchReddit(r.cursor, d) : d \in RedditPayloads(r.cursor) }

\* ------------------------------------------------------------- loadColumn
ErrorMessage(type) == IF type = "reddit" THEN "reddit_unavailable" ELSE "content_unavailable"

\* Mutation: the catch block reports the failure on every column.
CatchStoreEveryColumn(st, colId) ==
  [id \in Ids |->
    IF st[id] = NoRec THEN st[id]
    ELSE [st[id] EXCEPT !.loading = FALSE, !.error = ErrorMessage(TypeOf(colId))]]

\* Mutation: the catch block also drops the items loaded so far.
CatchStoreClearing(st, colId) ==
  [st EXCEPT ![colId].loading = FALSE,
             ![colId].error = ErrorMessage(TypeOf(colId)),
             ![colId].items = <<>>]

\* Mutation: the failure leaves loadColumn instead of being recorded.
CatchStoreDropped(st, colId) == st

\* The catch block of loadColumn.
CatchStore(st, colId) ==
  [st EXCEPT ![colId].loading = FALSE, ![colId].error = ErrorMessage(TypeOf(colId))]

\* Mutation: a resolved fetch puts its items before the ones already loaded.
ApplyStorePrepending(st, r, res) ==
  LET prevItems == IF r.mode = "more" THEN st[r.id].items ELSE <<>>
  IN IF TypeOf(r.id) = "hn"
     THEN [st EXCEPT ![r.id].items = res.items \o prevItems,
                     ![r.id].loading = FALSE,
                     ![r.id].error = "",
                     ![r.id].page = res.next,
                     ![r.id].hasMore = res.hasMore]
     ELSE [st EXCEPT ![r.id].items = res.items \o prevItems,
                     ![r.id].loading = FALSE,
                     ![r.id].error = "",
                     ![r.id].after = res.next,
                     ![r.id].hasMore = res.hasMore]

\* The setStore of a resolved fetch.
ApplyStore(st, r, res) ==
  LET prevItems == IF r.mode = "more" THEN st[r.id].items ELSE <<>>
  IN IF TypeOf(r.id) = "hn"
     THEN [st EXCEPT ![r.id].items = prevItems \o res.items,
                     ![r.id].loading = FALSE,
                     ![r.id].error = "",
                     ![r.id].page = res.next,
                     ![r.id].hasMore = res.hasMore]
     ELSE [st EXCEPT ![r.id].items = prevItems \o res.items,
                     ![r.id].loading = FALSE,
                     ![r.id].error = "",
                     ![r.id].after = res.next,
                     ![r.id].hasMore = res.hasMore]

\* Mutation: abort() also reaches the requests of the controller in use.
AbortedWithCurrent(r) == r.signal <= abortRef

\* abort() has been called on the controller whose signal r was given.
Aborted(r) == r.signal < abortRef

Live(fl, id, sig) == {r \in fl : r.id = id /\ r.signal = sig}

NewRequest(fl, colId, mode, sig, cursor) ==
  [id |-> colId, mode |-> mode, signal |-> sig, cursor |-> cursor,
   dup |-> Cardinality({r \in fl : r.id = colId /\ r.mode = mode /\ r.signal = sig /\ r.cursor = cursor})]

\* The item "nasa_fallback" that the block at lines 594-610 builds; no upstream
\* returns it (upstream cursors are >= 0).
NasaFallback == <<"nasa", -1, 1>>

\* Mutation: a nasa column that cannot be loaded shows the fallback item and
\* reports no error.
loadColumnWithFallback(S, rendered, colId, mode, sig) ==
  IF ~InColumns(colId) THEN S
  ELSE
    LET marked == [S.store EXCEPT ![colId].loading = TRUE, ![colId].error = ""]
        type == TypeOf(colId)
        cursor == IF mode = "more"
                  THEN (IF type = "hn" THEN rendered[colId].page ELSE rendered[colId].after)
                  ELSE (IF type = "hn" THEN 0 ELSE NoAfter)
    IN IF type \in {"hn", "reddit"}
       THEN [store |-> marked,
             inflight |-> S.inflight \cup {NewRequest(S.inflight, colId, mode, sig, cursor)}]
       ELSE IF type = "nasa"
       THEN [store |-> [marked EXCEPT ![colId].items = <<NasaFallback>>,
                                      ![colId].loading = FALSE,
                                      ![colId].hasMore = FALSE],
             inflight |-> S.inflight]
       ELSE [store |-> CatchStore(marked, colId), inflight |-> S.inflight]

\* loadColumn up to its first await (or to its return): S = [store, inflight].
\* `rendered` is the store of the render whose closure is called.
loadColumn(S, rendered, colId, mode, sig) ==
  IF ~InColumns(colId) THEN S
  ELSE
    LET marked == [S.store EXCEPT ![colId].loading = TRUE, ![colId].error = ""]
        type == TypeOf(colId)
        cursor == IF mode = "more"
                  THEN (IF type = "hn" THEN rendered[colId].page ELSE rendered[colId].after)
                  ELSE (IF type = "hn" THEN 0 ELSE NoAfter)
    IN IF type \in {"hn", "reddit"}
       THEN [store |-> marked,
             inflight |-> S.inflight \cup {NewRequest(S.inflight, colId, mode, sig, cursor)}]
       ELSE \* `res` is not declared where line 594 reads it: the ReferenceError
            \* is caught by the catch block before any adapter is called
            [store |-> CatchStore(marked, colId), inflight |-> S.inflight]

\* ------------------------------------------------------------------- Init
InitFeed ==
  /\ items = <<>>
  /\ loading = FALSE
  /\ partialLoading = [s \in {"HN", "NASA", "QUOTE"} |-> FALSE]
  /\ errors = <<>>
  /\ feedAbortRef = 0
  /\ calls = {}

NoPayload == [adapter |-> "none"]

NoReturn == [adapter |-> "none"]

\* The useState values of the feed's controls.
InitControls ==
  /\ searchText = <<>>
  /\ sortBy = "newest"
  /\ sourceFilter = [s \in {"HN", "NASA", "QUOTE"} |-> TRUE]

InitArgs ==
  /\ globalSearch = <<>>
  /\ payload = NoPayload
  /\ emitted = <<>>
  /\ returned = NoReturn
  /\ InitControls

Init ==
  /\ InitFeed
  /\ InitArgs
  /\ columns = << <<"hn", 0>>, <<"reddit", 0>>, <<"nasa", 0>> >>
  /\ store = [id \in Ids |->
               IF id \in { <<"hn", 0>>, <<"reddit", 0>>, <<"nasa", 0>> }
               THEN NewRecord(TypeOf(id)) ELSE NoRec]
  /\ abortRef = 0
  /\ inflight = {}
  /\ run = [id \in Ids |-> [src |-> "none", st |-> "none", k |-> 0]]
  /\ noMore = {}
  /\ ops = 0

NoRun == [src |-> "none", st |-> "none", k |-> 0]

\* The mount effect has called refreshAll before any user event is handled.
Mounted == abortRef > 0

\* No rejection of an aborted fetch is waiting in the microtask queue.
Quiet == \A r \in inflight : ~Aborted(r)

\* ---------------------------------------------------------------- actions
RECURSIVE LoadAll(_, _, _, _)
\* columns.map((c) => loadColumn(c.id, "refresh")): every call runs to its await.
LoadAll(S, rendered, cols, sig) ==
  IF cols = <<>> THEN S
  ELSE LoadAll(loadColumn(S, rendered, Head(cols), "refresh", sig), rendered, Tail(cols), sig)

\* The state reset of refreshAll.
ResetStore(st) ==
  [id \in Ids |->
    IF ~InColumns(id) \/ st[id] = NoRec THEN st[id]
    ELSE IF TypeOf(id) = "hn"
      THEN [st[id] EXCEPT !.items = <<>>, !.page = 0, !.hasMore = TRUE, !.error = "", !.loading = TRUE]
    ELSE IF TypeOf(id) = "reddit"
      THEN [st[id] EXCEPT !.items = <<>>, !.after = NoAfter, !.hasMore = TRUE, !.error = "", !.loading = TRUE]
    ELSE [st[id] EXCEPT !.items = <<>>, !.error = "", !.loading = TRUE, !.hasMore = FALSE]]

\* refreshAll: the mount effect, the "Refresh All" and the "Apply" buttons.
refreshAll ==
  /\ Quiet
  /\ Mounted => ops + 2 <= 2 * MaxOps
  /\ ops' = IF Mounted THEN ops + 2 ELSE ops
  /\ LET sig == abortRef + 1
         S == LoadAll([store |-> ResetStore(store), inflight |-> inflight], store, columns, sig)
     IN /\ abortRef' = sig
        /\ store' = S.store
        /\ inflight' = S.inflight
  /\ run' = [id \in Ids |->
              IF InColumns(id)
              THEN [src |-> "all", st |-> IF Paginated(id) THEN "pending" ELSE "crash", k |-> 0]
              ELSE NoRun]
  /\ noMore' = {c \in noMore : ~InColumns(c)}
  /\ UNCHANGED columns
  /\ UNCHANGED <<feedVars, argVars>>

\* The fetch of r was aborted by refreshAll: it rejects and the catch block runs.
AbortedReject(r) ==
  /\ Aborted(r)
  /\ store' = CatchStore(store, r.id)
  /\ inflight' = inflight \ {r}
  /\ UNCHANGED <<columns, abortRef, run, noMore, ops>>
  /\ UNCHANGED <<feedVars, argVars>>

Settle(r, outcome) ==
  [run EXCEPT ![r.id] = IF @.st = "pending" THEN [@ EXCEPT !.st = outcome] ELSE NoRun]

\* The fetch of r resolved with a 2xx response.
Resolve(r, res) ==
  /\ Quiet
  /\ res \in Responses(r)
  /\ store' = ApplyStore(store, r, res)
  /\ inflight' = inflight \ {r}
  /\ run' = Settle(r, "ok")
  /\ noMore' = IF ~res.hasMore THEN noMore \cup {r.id}
               ELSE IF r.mode = "refresh" THEN noMore \ {r.id}
               ELSE noMore
  /\ UNCHANGED <<columns, abortRef, ops>>
  /\ UNCHANGED <<feedVars, argVars>>

\* Mutation: a failed fetch is tried again without being asked.
RejectAndRetry(r) ==
  /\ Quiet
  /\ store' = CatchStore(store, r.id)
  /\ inflight' = (inflight \ {r}) \cup {[r EXCEPT !.dup = @ + 1]}
  /\ run' = Settle(r, "fail")
  /\ UNCHANGED <<columns, abortRef, noMore, ops>>
  /\ UNCHANGED <<feedVars, argVars>>

\* The fetch of r failed upstream (a non-2xx status, a transport failure).
Reject(r) ==
  /\ Quiet
  /\ store' = CatchStore(store, r.id)
  /\ inflight' = inflight \ {r}
  /\ run' = Settle(r, "fail")
  /\ UNCHANGED <<columns, abortRef, noMore, ops>>
  /\ UNCHANGED <<feedVars, argVars>>

\* Mutation: the button is not disabled while loading.
LoadMoreButtonNeverDisabled(c) == store[c].hasMore

\* Mutation: the button is rendered whether or not there is more.
LoadMoreButtonAlwaysRendered(c) == ~store[c].loading

\* The "Load More" button of ColumnShell is rendered when hasMore and is
\* disabled while loading; a call it does not pass on does nothing.
LoadMoreButton(c) == store[c].hasMore /\ ~store[c].loading

loadMore(c) ==
  /\ Mounted
  /\ Quiet
  /\ InColumns(c)
  /\ IF LoadMoreButton(c)
     THEN /\ ops + 1 <= 2 * MaxOps
          /\ ops' = ops + 1
          /\ LET S == loadColumn([store |-> store, inflight |-> inflight], store, c, "more", abortRef)
             IN /\ store' = S.store
                /\ inflight' = S.inflight
          /\ run' = [run EXCEPT ![c] =
                       IF @.st = "ok" /\ Live(inflight, c, abortRef) = {}
                       THEN [@ EXCEPT !.st = "pending", !.k = @ + 1]
                       ELSE NoRun]
     ELSE UNCHANGED <<store, inflight, run, ops>>
  /\ UNCHANGED <<columns, abortRef, noMore>>
  /\ UNCHANGED <<feedVars, argVars>>

\* The refresh button of a column (and the dismiss button of its error banner).
refreshOne(c) ==
  /\ Mounted
  /\ Quiet
  /\ InColumns(c)
  /\ ops + 2 <= 2 * MaxOps
  /\ ops' = ops + 2
  /\ LET S == loadColumn([store |-> store, inflight |-> inflight], store, c, "refresh", abortRef)
     IN /\ store' = S.store
        /\ inflight' = S.inflight
  /\ run' = [run EXCEPT ![c] =
               IF Live(inflight, c, abortRef) = {}
               THEN [src |-> "one", st |-> IF Paginated(c) THEN "pending" ELSE "crash", k |-> 0]
               ELSE NoRun]
  /\ noMore' = noMore \ {c}
  /\ UNCHANGED <<columns, abortRef>>
  /\ UNCHANGED <<feedVars, argVars>>

removeColumn(id) ==
  /\ Mounted
  /\ Quiet
  /\ InColumns(id)
  /\ ops + 2 <= 2 * MaxOps
  /\ ops' = ops + 2
  /\ columns' = SelectSeq(columns, LAMBDA c : c # id)
  /\ run' = [run EXCEPT ![id] = NoRun]
  /\ UNCHANGED <<store, abortRef, inflight, noMore>>
  /\ UNCHANGED <<feedVars, argVars>>

\* addColumn and the effect that gives a record to a column that has none.
addColumn(type, suffix) ==
  /\ Mounted
  /\ Quiet
  /\ ops + 2 <= 2 * MaxOps
  /\ ops' = ops + 2
  /\ LET id == <<type, suffix>>
     IN /\ columns' = Append(columns, id)
        /\ store' = IF store[id] = NoRec THEN [store EXCEPT ![id] = NewRecord(type)] ELSE store
  /\ UNCHANGED <<abortRef, inflight, run, noMore>>
  /\ UNCHANGED <<feedVars, argVars>>

Next ==
  \/ refreshAll
  \/ \E r \in inflight : AbortedReject(r)
  \/ \E r \in inflight : \E res \in Responses(r) : Resolve(r, res)
  \/ \E r \in inflight : Reject(r)
  \/ \E c \in Ids : loadMore(c)
  \/ \E c \in Ids : refreshOne(c)
  \/ \E c \in Ids : removeColumn(c)
  \/ \E t \in Types, s \in 1 .. NumSuffix : addColumn(t, s)

Spec == Init /\ [][Next]_vars

\* Some request in flight completes: its abort rejection is delivered, or
\* its fetch fails or resolves.
Complete ==
  \E r \in inflight :
    \/ AbortedReject(r)
    \/ Reject(r)
    \/ \E res \in Responses(r) : Resolve(r, res)

\* The board under the assumption that no fetch hangs for ever: a request in
\* flight is eventually completed. The user may stop at any time, and stops
\* at the latest when the budget of operations is used up.
SpecFair == Init /\ [][Next]_vars /\ WF_vars(Complete)

\* ---------------------------------------------------- single feed: refresh
Sources == {"HN", "NASA", "QUOTE"}

TaskOrder == <<"HN", "NASA", "QUOTE">>

\* What a fetch client of the feed returns to the refresh of controller `sig`:
\* fetchHN a page of hits, fetchNASA and fetchQuote one item each.
FeedItems(source, sig) ==
  IF source = "HN"
  THEN { [id |-> <<"hn", i>>, source |-> "HN", fetched |-> sig] : i \in 1 .. PageLen }
  ELSE IF source = "NASA"
  THEN { [id |-> <<"nasa", 1>>, source |-> "NASA", fetched |-> sig] }
  ELSE { [id |-> <<"quote", 1>>, source |-> "QUOTE", fetched |-> sig] }

\* a.id > b.id on the id strings "hn_<n>" < "nasa_<d>" < "quote_<q>".
IdGreater(a, b) ==
  \/ a[1] # b[1] /\ <<a[1], b[1]>> \in {<<"nasa", "hn">>, <<"quote", "hn">>, <<"quote", "nasa">>}
  \/ a[1] = b[1] /\ a[2] > b[2]

RECURSIVE SortById(_)
\* results.sort((a, b) => (a.id > b.id ? 1 : -1)) on items of distinct ids.
SortById(set) ==
  IF set = {} THEN <<>>
  ELSE LET least == CHOOSE x \in set : \A y \in set \ {x} : IdGreater(y.id, x.id)
       IN <<least>> \o SortById(set \ {least})

FeedError(source) ==
  IF source = "HN" THEN "err_hn" ELSE IF source = "NASA" THEN "err_nasa" ELSE "err_quote"

FeedAborted(call) == call.signal < feedAbortRef

FeedQuiet == \A call \in calls : ~FeedAborted(call)

\* refresh(): the mount effect and the "Refresh" button.
refresh ==
  /\ FeedQuiet
  /\ feedAbortRef > 0 => ops + 2 <= 2 * MaxOps
  /\ ops' = IF feedAbortRef > 0 THEN ops + 2 ELSE ops
  /\ feedAbortRef' = feedAbortRef + 1
  /\ errors' = <<>>
  /\ loading' = TRUE
  /\ partialLoading' = [s \in Sources |-> TRUE]
  /\ calls' = calls \cup {[signal |-> feedAbortRef + 1,
                           task |-> [s \in Sources |-> "pending"],
                           results |-> {},
                           nextErrors |-> <<>>]}
  /\ UNCHANGED items
  /\ UNCHANGED <<boardVars, argVars>>

\* The end of refresh(), once Promise.all(tasks) has resolved.
Finish(call) ==
  /\ items' = SortById(call.results)
  /\ errors' = call.nextErrors
  /\ loading' = FALSE

\* One task of a refresh settles: .then or .catch, then .finally.
TaskSettle(call, source, ok) ==
  /\ FeedQuiet
  /\ call.task[source] = "pending"
  /\ partialLoading' = [partialLoading EXCEPT ![source] = FALSE]
  /\ LET after == [call EXCEPT
                     !.task[source] = IF ok THEN "ok" ELSE "fail",
                     !.results = IF ok THEN @ \cup FeedItems(source, call.signal) ELSE @,
                     !.nextErrors = IF ok THEN @ ELSE Append(@, FeedError(source))]
     IN IF \A s \in Sources : after.task[s] # "pending"
        THEN Finish(after) /\ calls' = calls \ {call}
        ELSE /\ calls' = (calls \ {call}) \cup {after}
             /\ UNCHANGED <<items, errors, loading>>
  /\ UNCHANGED <<feedAbortRef, ops>>
  /\ UNCHANGED <<boardVars, argVars>>

RECURSIVE RejectPending(_, _)
RejectPending(call, order) ==
  IF order = <<>> THEN call
  ELSE LET s == Head(order)
           next == IF call.task[s] = "pending"
                   THEN [call EXCEPT !.task[s] = "fail", !.nextErrors = Append(@, FeedError(s))]
                   ELSE call
       IN RejectPending(next, Tail(order))

\* The fetches of an aborted refresh reject, its tasks settle and it ends.
AbortedSettle(call) ==
  /\ FeedAborted(call)
  /\ LET after == RejectPending(call, TaskOrder)
     IN /\ Finish(after)
        /\ calls' = calls \ {call}
  /\ partialLoading' = [s \in Sources |-> IF call.task[s] = "pending" THEN FALSE ELSE partialLoading[s]]
  /\ UNCHANGED <<feedAbortRef, ops>>
  /\ UNCHANGED <<boardVars, argVars>>

NextFeed ==
  \/ refresh
  \/ \E call \in calls, s \in Sources, ok \in BOOLEAN : TaskSettle(call, s, ok)
  \/ \E call \in calls : AbortedSettle(call)

SpecFeed == Init /\ [][NextFeed]_vars

\* ------------------------------------------------- projection of the board
\* A string is a sequence of characters; "A" is the one upper-case letter and
\* " " the one white-space character of the alphabet.
Chars == {"a", "A", "c", " "}

toLowerCase(str) == [i \in DOMAIN str |-> IF str[i] = "A" THEN "a" ELSE str[i]]

RECURSIVE trimStart(_)
trimStart(str) ==
  IF str # <<>> /\ Head(str) = " " THEN trimStart(Tail(str)) ELSE str

RECURSIVE trimEnd(_)
trimEnd(str) ==
  IF str # <<>> /\ str[Len(str)] = " " THEN trimEnd(SubSeq(str, 1, Len(str) - 1)) ELSE str

trim(str) == trimEnd(trimStart(str))

\* hay.includes(needle)
includes(hay, needle) ==
  \E k \in 0 .. Len(hay) - Len(needle) : SubSeq(hay, k + 1, k + Len(needle)) = needle

RECURSIVE join(_, _)
\* parts.join(sep)
join(parts, sep) ==
  IF parts = <<>> THEN <<>>
  ELSE IF Len(parts) = 1 THEN parts[1]
  ELSE parts[1] \o sep \o join(Tail(parts), sep)

\* Mutation: the text of an item is compared without being lower-cased.
HaystackCaseSensitive(it) ==
  join(SelectSeq(<<it.title, it.summary, it.author, it.subreddit, it.host, join(it.tags, <<" ">>)>>,
                 LAMBDA f : f # <<>>),
       <<" ">>)

\* The text of an item that the filter looks into; a field the item lacks is
\* <<>>, dropped by filter(Boolean) like an empty one.
Haystack(it) ==
  toLowerCase(join(SelectSeq(<<it.title, it.summary, it.author, it.subreddit, it.host,
                               join(it.tags, <<" ">>)>>,
                             LAMBDA f : f # <<>>),
                   <<" ">>))

RECURSIVE Reverse(_)
Reverse(seq) == IF seq = <<>> THEN <<>> ELSE Append(Reverse(Tail(seq)), Head(seq))

\* Mutation: the projection puts the latest items first.
visibleByColumnLatestFirst ==
  LET s == toLowerCase(trim(globalSearch))
  IN [c \in {columns[i] : i \in DOMAIN columns} |->
       LET bucket == IF store[c] = NoRec THEN <<>> ELSE Reverse(store[c].items)
       IN IF s = <<>> THEN bucket
          ELSE SelectSeq(bucket, LAMBDA it : includes(Haystack(it), s))]

\* The useMemo value visibleByColumn: one entry per column of the board.
visibleByColumn ==
  LET s == toLowerCase(trim(globalSearch))
  IN [c \in {columns[i] : i \in DOMAIN columns} |->
       LET bucket == IF store[c] = NoRec THEN <<>> ELSE store[c].items
       IN IF s = <<>> THEN bucket
          ELSE SelectSeq(bucket, LAMBDA it : includes(Haystack(it), s))]

\* The texts that can be typed into the search box.
Texts == UNION {[1 .. n -> Chars] : n \in 0 .. MaxText}

\* Items as fetchHN and fetchReddit build them, with the fields the filter
\* reads: a title, and one of the other fields filled or none (tags are set by
\* no adapter whose items reach a buffer).
ViewItems(type) ==
  LET blank == [title |-> <<>>, summary |-> <<>>, author |-> <<>>,
                subreddit |-> <<>>, host |-> <<>>, tags |-> <<>>]
      titled == {[blank EXCEPT !.title = t] : t \in {<<"A">>, <<"c">>}}
  IN titled
     \cup {[it EXCEPT !.summary = <<"c">>] : it \in titled}
     \cup {[it EXCEPT !.author = <<"c">>] : it \in titled}
     \cup {[it EXCEPT !.host = <<"c">>] : it \in titled}
     \cup (IF type = "reddit" THEN {[it EXCEPT !.subreddit = <<"c">>] : it \in titled} ELSE {})

Buffers(type) == UNION {[1 .. n -> ViewItems(type)] : n \in 0 .. MaxBuf}

\* The board after its columns have loaded, one of them with any buffer, and
\* any text in the search box.
InitView ==
  /\ InitFeed
  /\ columns = << <<"hn", 0>>, <<"reddit", 0>>, <<"nasa", 0>> >>
  /\ \E c \in { <<"hn", 0>>, <<"reddit", 0>> } : \E buf \in Buffers(TypeOf(c)) :
       store = [id \in Ids |->
                 IF id = c THEN [NewRecord(TypeOf(id)) EXCEPT !.items = buf]
                 ELSE IF id \in { <<"hn", 0>>, <<"reddit", 0>>, <<"nasa", 0>> }
                 THEN NewRecord(TypeOf(id)) ELSE NoRec]
  /\ abortRef = 1
  /\ inflight = {}
  /\ run = [id \in Ids |-> NoRun]
  /\ noMore = {}
  /\ ops = 0
  /\ globalSearch \in Texts
  /\ payload = NoPayload
  /\ emitted = <<>>
  /\ returned = NoReturn
  /\ InitControls

\* onChange of the search box.
setGlobalSearch(text) ==
  /\ globalSearch' = text
  /\ UNCHANGED <<payload, emitted, returned, viewVars>>
  /\ UNCHANGED <<boardVars, feedVars, ops>>

NextView == \E text \in Texts : setGlobalSearch(text)

SpecView == InitView /\ [][NextView]_vars

\* ------------------------------------------------- adapters: item mapping
\* A field an upstream record lacks (undefined).
Absent == "undefined"

\* a || b on strings and undefined.
Or(a, b) == IF a \in {Absent, ""} THEN b ELSE a

\* Strings that are the serialization of an absolute URL.
AbsoluteUrls ==
  {"http://example.com/", "https://example.com/a",
   "https://i.redd.it/a?x=1&amp;y=2", "https://i.redd.it/a?x=1&y=2",
   "https://news.ycombinator.com/item?id=1", "https://www.reddit.com/r/technology/x",
   "https://apod.nasa.gov/"}

\* new URL(u): the parser fails on a string that is no absolute URL, and the
\* serialization of the one it accepts is normalized (scheme and host in
\* lower case, "/" for the empty path).
URLParse(u) ==
  IF u = "HTTP://Example.com" THEN [ok |-> TRUE, href |-> "http://example.com/"]
  ELSE IF u \in AbsoluteUrls THEN [ok |-> TRUE, href |-> u]
  ELSE [ok |-> FALSE]

\* Mutation: the catch block hands back the string it was given.
safeUrlRaw(u) == IF URLParse(u).ok THEN URLParse(u).href ELSE u

safeUrl(u) == IF URLParse(u).ok THEN URLParse(u).href ELSE ""

\* .replace(/&amp;/g, "&")
Unescape(u) == IF u = "https://i.redd.it/a?x=1&amp;y=2" THEN "https://i.redd.it/a?x=1&y=2" ELSE u

\* The values an upstream puts in a field that is meant to hold a URL.
UrlValues ==
  {Absent, "", "not a url", "/r/technology/x", "HTTP://Example.com",
   "https://example.com/a", "https://i.redd.it/a?x=1&amp;y=2"}

\* The bounds the adapters of the board clamp their summaries to.
HNClamp == 140
RedditClamp == 160
NasaClamp == 240

RECURSIVE collapse(_)
\* .replace(/\s+/g, " "): every run of white space becomes one space.
collapse(str) ==
  IF Len(str) < 2 THEN str
  ELSE LET half == Len(str) \div 2
           left == collapse(SubSeq(str, 1, half))
           right == collapse(SubSeq(str, half + 1, Len(str)))
       IN IF left[Len(left)] = " " /\ right[1] = " " THEN left \o Tail(right) ELSE left \o right

\* clampText(s, max); "..." stands for the one character U+2026.
clampText(str, max) ==
  IF str = <<>> THEN <<>>
  ELSE LET t == trim(collapse(str))
       IN IF Len(t) > max THEN SubSeq(t, 1, max - 1) \o <<"...">> ELSE t

Rep(ch, n) == [i \in 1 .. n |-> ch]

\* The texts an upstream puts in story_text, selftext, explanation or content
\* (a missing one is read as the empty text by `|| ""`): short ones with and
\* without runs of white space, and ones around each clamp bound.
SummaryTexts ==
  { <<>>, <<"a", " ", " ", "a">>, <<" ", "a", " ">>, Rep(" ", 3),
    Rep("a", HNClamp - 2) \o <<" ">> \o Rep("a", 5),
    Rep("a", NasaClamp - 1) \o <<" ", " ">> \o Rep("a", 5) }
  \cup { Rep("a", b) : b \in {HNClamp, RedditClamp, NasaClamp} }
  \cup { Rep("a", b + 1) : b \in {HNClamp, RedditClamp, NasaClamp} }

\* The url, imageUrl and summary of the item each adapter makes of an upstream
\* record; fetchHN and fetchQuote set no imageUrl.
hnItem(h) ==
  [source |-> "hn",
   summary |-> clampText(h.story_text, HNClamp),
   url |-> safeUrl(Or(h.url, IF h.objectID # Absent
                             THEN "https://news.ycombinator.com/item?id=" \o h.objectID
                             ELSE "")),
   imageUrl |-> Absent]

redditItem(p) ==
  LET thumb == safeUrl(Unescape(Or(p.preview, "")))
  IN [source |-> "reddit",
      summary |-> clampText(p.selftext, RedditClamp),
      url |-> safeUrl(Or(p.url_overridden_by_dest,
                         IF p.permalink \notin {Absent, ""}
                         THEN "https://www.reddit.com" \o p.permalink
                         ELSE "")),
      imageUrl |-> Or(thumb, "")]

nasaItem(d) ==
  LET url == safeUrl(Or(d.url, ""))
      hd == safeUrl(Or(d.hdurl, ""))
  IN [source |-> "nasa",
      summary |-> clampText(d.explanation, NasaClamp),
      url |-> Or(url, "https://apod.nasa.gov/"),
      imageUrl |-> IF d.media_type = "image" THEN Or(hd, url) ELSE ""]

\* The summary of a quote is its content between U+201C and U+201D.
quoteItem(q) ==
  [source |-> "quote",
   summary |-> <<"ldquo">> \o q.content \o <<"rdquo">>,
   url |-> "",
   imageUrl |-> Absent]

\* The records of upstream answers: any values in the URL fields with a short
\* text, and any text with absolute URLs.
Payloads ==
  {[adapter |-> "hn", url |-> u, objectID |-> o, story_text |-> <<"a">>] :
     u \in UrlValues, o \in {Absent, "1"}}
  \cup {[adapter |-> "hn", url |-> "https://example.com/a", objectID |-> "1", story_text |-> t] :
          t \in SummaryTexts}
  \cup {[adapter |-> "reddit", url_overridden_by_dest |-> u, permalink |-> l, preview |-> v,
          selftext |-> <<"a">>] :
          u \in UrlValues, l \in {Absent, "/r/technology/x", " x"}, v \in UrlValues}
  \cup {[adapter |-> "reddit", url_overridden_by_dest |-> "https://example.com/a",
          permalink |-> "/r/technology/x", preview |-> Absent, selftext |-> t] :
          t \in SummaryTexts}
  \cup {[adapter |-> "nasa", url |-> u, hdurl |-> v, media_type |-> m, explanation |-> <<"a">>] :
          u \in UrlValues, v \in UrlValues, m \in {"image", "video"}}
  \cup {[adapter |-> "nasa", url |-> "https://example.com/a", hdurl |-> Absent,
          media_type |-> "image", explanation |-> t] :
          t \in SummaryTexts}
  \cup {[adapter |-> "quote", content |-> t] : t \in SummaryTexts}

\* The query string parameters fetchReddit sends.
redditParams(after) ==
  IF Truthy(after)
  THEN [limit |-> "15", raw_json |-> "1", after |-> after]
  ELSE [limit |-> "15", raw_json |-> "1"]

\* Mutation: a page on which nothing matches the query ends the pagination.
fetchRedditStoppingOnEmpty(query, after, data) ==
  LET q == toLowerCase(trim(query))
      unfiltered == fetchReddit(after, data)
      mapped == IF q # <<>>
                THEN SelectSeq(unfiltered.items,
                               LAMBDA it : includes(toLowerCase(it.title \o <<" ">> \o it.summary
                                                                 \o <<" ">> \o it.subreddit), q))
                ELSE unfiltered.items
  IN [unfiltered EXCEPT !.items = mapped, !.hasMore = @ /\ mapped # <<>>]

\* fetchReddit with a query: the mapped items are filtered on the client by
\* `${it.title} ${it.summary} ${it.subreddit}`.toLowerCase().includes(q).
fetchRedditWithQuery(query, after, data) ==
  LET q == toLowerCase(trim(query))
      unfiltered == fetchReddit(after, data)
  IN IF q # <<>>
     THEN [unfiltered EXCEPT !.items =
             SelectSeq(@, LAMBDA it : includes(toLowerCase(it.title \o <<" ">> \o it.summary
                                                            \o <<" ">> \o it.subreddit), q))]
     ELSE unfiltered

\* The request loadColumn dispatches for column <<type, 0>> in `mode` when the
\* record of the column holds `cursor` as its page and its after.
Requests(type) ==
  UNION { LET st == [store EXCEPT ![<<type, 0>>].page = cursor, ![<<type, 0>>].after = cursor]
          IN loadColumn([store |-> st, inflight |-> {}], st, <<type, 0>>, mode, 1).inflight :
            mode \in {"refresh", "more"}, cursor \in 0 .. 2 * MaxOps }

\* The mapped children of a listing: none, one, or two posts.
Listings ==
  LET first == [id |-> 1, title |-> <<"A", "c">>, summary |-> <<"a">>, subreddit |-> <<"c">>]
      second == [id |-> 2, title |-> <<"c">>, summary |-> <<>>, subreddit |-> <<"a">>]
  IN { <<>>, <<first>>, <<first, second>> }

\* The adapter calls of loadColumn with the answer the upstream gives: for hn
\* a page count below, at and above the next page index or none; for reddit
\* any query, a listing, and a next token, null or none.
Calls ==
  UNION { { [adapter |-> "fetchHN", request |-> r, query |-> <<>>, data |-> d] :
              d \in HNPayloads(r.cursor) } : r \in Requests("hn") }
  \cup { [adapter |-> "fetchReddit", request |-> r, query |-> t,
          data |-> [children |-> l, after |-> a]] :
           r \in Requests("reddit"), t \in Texts, l \in Listings,
           a \in {NoAfter, UndefinedAfter, 1, 2 * MaxOps + 1} }

\* An adapter is about to map one record of a 2xx answer, or loadColumn is
\* about to call an adapter whose upstream answers 2xx.
InitAdapter ==
  /\ InitFeed
  /\ columns = << <<"hn", 0>>, <<"reddit", 0>>, <<"nasa", 0>> >>
  /\ store = [id \in Ids |->
               IF id \in { <<"hn", 0>>, <<"reddit", 0>>, <<"nasa", 0>> }
               THEN NewRecord(TypeOf(id)) ELSE NoRec]
  /\ abortRef = 0
  /\ inflight = {}
  /\ run = [id \in Ids |-> NoRun]
  /\ noMore = {}
  /\ ops = 0
  /\ globalSearch = <<>>
  /\ payload \in Payloads \cup Calls
  /\ emitted = <<>>
  /\ returned = NoReturn
  /\ InitControls

\* The item mapping of the adapter the record was sent to.
adapt ==
  /\ payload.adapter \in Types
  /\ emitted = <<>>
  /\ emitted' = << IF payload.adapter = "hn" THEN hnItem(payload)
                   ELSE IF payload.adapter = "reddit" THEN redditItem(payload)
                   ELSE IF payload.adapter = "nasa" THEN nasaItem(payload)
                   ELSE quoteItem(payload) >>
  /\ UNCHANGED <<globalSearch, payload, returned, viewVars>>
  /\ UNCHANGED <<boardVars, feedVars, ops>>

\* One call of fetchHN or fetchReddit with the cursor of the request.
answer ==
  /\ payload.adapter \in {"fetchHN", "fetchReddit"}
  /\ returned = NoReturn
  /\ returned' =
       IF payload.adapter = "fetchHN"
       THEN [adapter |-> "fetchHN",
             sent |-> [page |-> payload.request.cursor],
             result |-> fetchHN(payload.request.cursor, payload.data)]
       ELSE [adapter |-> "fetchReddit",
             sent |-> redditParams(payload.request.cursor),
             result |-> fetchRedditWithQuery(payload.query, payload.request.cursor,
                                             payload.data)]
  /\ UNCHANGED <<globalSearch, payload, emitted, viewVars>>
  /\ UNCHANGED <<boardVars, feedVars, ops>>

NextAdapter == adapt \/ answer

SpecAdapter == InitAdapter /\ [][NextAdapter]_vars

\* ------------------------------------------------------- single feed: view
NoDate == [valid |-> FALSE, time |-> 0]

\* Mutation: an item without a date is older than every dated item.
getTimeNullOldest(date) == IF date.valid THEN date.time ELSE -9

\* a.date?.getTime() || 0
getTimeOr0(date) == IF date.valid THEN date.time ELSE 0

\* The comparator of list.sort for the sort key: negative when a goes first.
compare(key, a, b) ==
  IF key = "score"
  THEN IF b.score - a.score # 0 THEN b.score - a.score
       ELSE getTimeOr0(b.date) - getTimeOr0(a.date)
  ELSE IF key = "oldest" THEN getTimeOr0(a.date) - getTimeOr0(b.date)
  ELSE getTimeOr0(b.date) - getTimeOr0(a.date)

RECURSIVE sort(_, _)
\* list.sort(comparator): Array.prototype.sort is stable, so an element goes
\* behind every element before it that the comparator does not put after it.
sort(list, key) ==
  IF list = <<>> THEN <<>>
  ELSE LET n == Len(list)
           sorted == sort(SubSeq(list, 1, n - 1), key)
           k == Cardinality({i \in DOMAIN sorted : compare(key, sorted[i], list[n]) <= 0})
       IN SubSeq(sorted, 1, k) \o <<list[n]>> \o SubSeq(sorted, k + 1, n - 1)

\* `hay`: the text of a feed item that the search looks into.
feedHay(it) ==
  toLowerCase(join(SelectSeq(<<it.title, it.summary, it.author, join(it.tags, <<" ">>)>>,
                             LAMBDA f : f # <<>>),
                   <<" ">>))

\* The useMemo value view: source filter, text search, sort.
view ==
  LET s == toLowerCase(trim(searchText))
      bySource == SelectSeq(items, LAMBDA it : sourceFilter[it.source])
      list == IF s # <<>> THEN SelectSeq(bySource, LAMBDA it : includes(feedHay(it), s))
              ELSE bySource
  IN sort(list, sortBy)

\* The dates an item can carry (null, before and after 1970) and the points
\* of a story.
Dates == {NoDate} \cup {[valid |-> TRUE, time |-> t] : t \in {-1, 1, 2}}

Points == {0, 1}

\* The item lists refresh() leaves in `items`: two stories, the picture of
\* the day and a quote, in ascending order of their ids.
FeedLists ==
  { << [id |-> <<"hn", 1>>, source |-> "HN", title |-> <<"a">>, summary |-> <<>>,
        author |-> <<"c">>, tags |-> <<>>, date |-> d1, score |-> p1],
       [id |-> <<"hn", 2>>, source |-> "HN", title |-> <<"A", "c">>, summary |-> <<"a">>,
        author |-> <<>>, tags |-> <<>>, date |-> d2, score |-> p2],
       [id |-> <<"nasa", 1>>, source |-> "NASA", title |-> <<"c">>, summary |-> <<>>,
        author |-> <<>>, tags |-> << <<"a">>, <<"c">> >>, date |-> d3, score |-> 0],
       [id |-> <<"quote", 1>>, source |-> "QUOTE", title |-> <<"A">>, summary |-> <<"c">>,
        author |-> <<"a">>, tags |-> <<>>, date |-> d4, score |-> 0] >> :
      d1 \in Dates, d2 \in Dates, d3 \in Dates, d4 \in {NoDate, [valid |-> TRUE, time |-> 1]},
      p1 \in Points, p2 \in Points }

\* The texts typed into the feed's search box.
SearchTexts == { <<>>, <<" ">>, <<"a">>, <<" ", "A">>, <<"c">>, <<"a", " ", "c">> }

\* A refresh has ended and the controls are as the page shows them first.
InitFeedView ==
  /\ items \in FeedLists
  /\ loading = FALSE
  /\ partialLoading = [s \in {"HN", "NASA", "QUOTE"} |-> FALSE]
  /\ errors = <<>>
  /\ feedAbortRef = 1
  /\ calls = {}
  /\ columns = << <<"hn", 0>>, <<"reddit", 0>>, <<"nasa", 0>> >>
  /\ store = [id \in Ids |->
               IF id \in { <<"hn", 0>>, <<"reddit", 0>>, <<"nasa", 0>> }
               THEN NewRecord(TypeOf(id)) ELSE NoRec]
  /\ abortRef = 0
  /\ inflight = {}
  /\ run = [id \in Ids |-> NoRun]
  /\ noMore = {}
  /\ ops = 0
  /\ globalSearch = <<>>
  /\ payload = NoPayload
  /\ emitted = <<>>
  /\ returned = NoReturn
  /\ InitControls

\* onChange of the search box, of the sort select and of a source checkbox.
setSearchText(text) ==
  /\ searchText' = text
  /\ UNCHANGED <<sortBy, sourceFilter>>
  /\ UNCHANGED <<globalSearch, payload, emitted, returned>>
  /\ UNCHANGED <<boardVars, feedVars, ops>>

setSortBy(key) ==
  /\ sortBy' = key
  /\ UNCHANGED <<searchText, sourceFilter>>
  /\ UNCHANGED <<globalSearch, payload, emitted, returned>>
  /\ UNCHANGED <<boardVars, feedVars, ops>>

setSourceFilter(source) ==
  /\ sourceFilter' = [sourceFilter EXCEPT ![source] = ~@]
  /\ UNCHANGED <<searchText, sortBy>>
  /\ UNCHANGED <<globalSearch, payload, emitted, returned>>
  /\ UNCHANGED <<boardVars, feedVars, ops>>

NextFeedView ==
  \/ \E text \in SearchTexts : setSearchText(text)
  \/ \E key \in {"newest", "oldest", "score"} : setSortBy(key)
  \/ \E source \in Sources : setSourceFilter(source)

SpecFeedView == InitFeedView /\ [][NextFeedView]_vars

\* ================================================================== claims
\* What the ghost `run` records of column c: the refreshAll or the column
\* refresh that last started on c with nothing else in flight for c (src), how
\* the request that followed settled (st), and how many "Load More" calls were
\* issued one after the other since, each after the previous one settled (k).
RefreshAllSucceeded(c) == run[c] = [src |-> "all", st |-> "ok", k |-> 0]

RefreshAllFailed(c) == run[c] = [src |-> "all", st |-> "fail", k |-> 0]

\* The first page an adapter returns for a column of this type.
FirstPage(type) ==
  IF type \in {"hn", "reddit"} THEN Hits(type, 0) ELSE << <<type, 0, 1>> >>

RECURSIVE Pages(_, _)
\* page0 \o page1 \o ... \o pagek of an upstream.
Pages(type, k) == IF k = 0 THEN Hits(type, 0) ELSE Pages(type, k - 1) \o Hits(type, k)

\* C1 Isolation: when a refreshAll's request for column a has failed and its
\* request for another column b has succeeded (in either order), b holds its
\* first page with no error, and a has its error set and an empty buffer.
C1_Isolation ==
  \A a, b \in Ids :
    (a # b /\ InColumns(a) /\ InColumns(b) /\ RefreshAllFailed(a) /\ RefreshAllSucceeded(b))
    => /\ store[b].items = FirstPage(TypeOf(b))
       /\ store[b].error = ""
       /\ store[a].error # ""
       /\ store[a].items = <<>>

C1_Witness ==
  \E a, b \in Ids :
    a # b /\ InColumns(a) /\ InColumns(b) /\ RefreshAllFailed(a) /\ RefreshAllSucceeded(b)

C3_CancelledIsNoOp ==
  [][\A r \in inflight : (Aborted(r) /\ AbortedReject(r)) => store' = store]_vars

C5_OneRequestInFlight ==
  \A c \in Ids : Cardinality(Live(inflight, c, abortRef)) <= 1

\* C6 Append-only pagination: after a column refresh that succeeded and k
\* loadMore calls that succeeded, issued one after the other with nothing else
\* on that column in between, the buffer is page0 \o page1 \o ... \o pagek.
C6_AppendOnly ==
  \A c \in Ids :
    (run[c].src = "one" /\ run[c].st = "ok")
    => store[c].items = Pages(TypeOf(c), run[c].k)

C6_Witness ==
  \E c \in Ids : run[c].src = "one" /\ run[c].st = "ok" /\ run[c].k >= 1

\* C7 Cancellation on deactivate: while a column is off the board, no step
\* other than its re-activation changes the record kept for it.
C7_DeactivatedUntouched ==
  [][\A id \in Ids : (~InColumns(id) /\ columns' = columns) => store'[id] = store[id]]_vars

\* C8 When no adapter call of a refreshAll has failed and all have settled,
\* every column on the board holds the first page of its source, with no error
\* and not loading.
C8_RefreshAllLoadsEveryColumn ==
  (\A c \in Ids : InColumns(c) => (run[c].src = "all" /\ run[c].k = 0 /\ run[c].st \in {"ok", "crash"}))
  => \A c \in Ids :
       InColumns(c) => /\ store[c].items = FirstPage(TypeOf(c))
                       /\ store[c].error = ""
                       /\ ~store[c].loading

\* C9 A loadMore call leaves items, cursor and hasMore alone when it
\* dispatches, and when its request fails upstream the error is set, loading
\* is false again, and items, cursor and hasMore are still left alone.
C9_FailedLoadMoreKeepsBuffer ==
  [][/\ \A c \in Ids :
          (InColumns(c) /\ loadMore(c))
          => /\ store'[c].items = store[c].items
             /\ store'[c].page = store[c].page
             /\ store'[c].after = store[c].after
             /\ store'[c].hasMore = store[c].hasMore
     /\ \A r \in inflight :
          (r.mode = "more" /\ Reject(r))
          => /\ store'[r.id].error # ""
             /\ ~store'[r.id].loading
             /\ store'[r.id].items = store[r.id].items
             /\ store'[r.id].page = store[r.id].page
             /\ store'[r.id].after = store[r.id].after
             /\ store'[r.id].hasMore = store[r.id].hasMore]_vars

C9_Witness ==
  \E c \in Ids :
    /\ run[c].st = "fail" /\ run[c].k >= 1
    /\ store[c].items # <<>> /\ store[c].error # "" /\ ~store[c].loading

\* C10 loadMore on a column whose hasMore is false dispatches nothing and
\* changes no state.
C10_LoadMoreWithoutMore ==
  [][\A c \in Ids : (InColumns(c) /\ ~store[c].hasMore /\ loadMore(c)) => UNCHANGED vars]_vars

C10_Witness ==
  \E c \in Ids :
    /\ Mounted /\ Quiet /\ InColumns(c) /\ Paginated(c) /\ ops + 1 <= 2 * MaxOps
    /\ ~store[c].hasMore /\ ~store[c].loading /\ store[c].items # <<>>

\* C11 The state reset of refreshAll: when the refreshAll handler has run, and
\* so before any response to its requests is applied, every column on the
\* board has an empty buffer, its cursor at the initial value, loading = true
\* and no error.
C11_ResetBeforeResponses ==
  [][refreshAll
     => \A c \in Ids :
          InColumns(c) => /\ store'[c].items = <<>>
                          /\ store'[c].page = 0
                          /\ store'[c].after = NoAfter
                          /\ store'[c].loading
                          /\ store'[c].error = ""]_vars

\* C12 A column refresh starts by emptying the column's buffer and putting
\* its cursor back to the initial value, and it cancels every request that was
\* in flight for the column, so that none of them is left to be applied.
C12_RefreshOneResetsAndCancels ==
  [][\A c \in Ids :
       (InColumns(c) /\ refreshOne(c))
       => /\ store'[c].items = <<>>
          /\ store'[c].page = 0
          /\ store'[c].after = NoAfter
          /\ \A r \in inflight : r.id = c => r \notin inflight']_vars

\* C13 refreshAll never fails as a whole. Every branch of its fan-out is
\* either suspended at its fetch or has ended with the error of its own column
\* set; and a branch that fails later (upstream failure or abort) ends with
\* the error set on its own column, leaves every other column's record alone
\* and takes no other request out of flight.
C13_FailureStaysInItsBranch ==
  [][/\ refreshAll
        => \A c \in Ids :
             InColumns(c)
             => \/ \E r \in inflight' : r.id = c /\ r.mode = "refresh" /\ r.signal = abortRef'
                \/ store'[c].error # "" /\ ~store'[c].loading
     /\ \A r \in inflight :
          (Reject(r) \/ AbortedReject(r))
          => /\ store'[r.id].error # ""
             /\ ~store'[r.id].loading
             /\ \A c \in Ids \ {r.id} : store'[c] = store[c]
             /\ inflight' = inflight \ {r}]_vars

C13_Witness ==
  \E a \in Ids :
    /\ InColumns(a) /\ RefreshAllFailed(a) /\ store[a].error # ""
    /\ \E r \in inflight :
         /\ r.id # a /\ r.mode = "refresh" /\ r.signal = abortRef
         /\ InColumns(r.id) /\ store[r.id].loading /\ store[r.id].error = ""

\* C14 A resolved page load leaves the column with the cursor and the hasMore
\* the adapter returned, not loading and with no error; and once a response
\* with hasMore = false has been applied to a column, "Load More" dispatches
\* no request for it until the column is refreshed (a refresh call, a refresh
\* response or the reset of refreshAll).
C14_CursorFollowsAdapter ==
  [][/\ \A r \in inflight : \A res \in Responses(r) :
          Resolve(r, res)
          => /\ (IF TypeOf(r.id) = "hn" THEN store'[r.id].page ELSE store'[r.id].after) = res.next
             /\ store'[r.id].hasMore = res.hasMore
             /\ ~store'[r.id].loading
             /\ store'[r.id].error = ""
     /\ \A c \in noMore : (InColumns(c) /\ loadMore(c)) => inflight' = inflight]_vars

C16_NoDuplicateIds ==
  \A c \in Ids :
    store[c] # NoRec
    => \A i, j \in DOMAIN store[c].items :
         store[c].items[i] = store[c].items[j] => i = j

\* hay contains needle: some stretch of hay, possibly empty, is needle.
Contains(hay, needle) ==
  \E i \in 1 .. Len(hay) + 1 : \E j \in 0 .. Len(hay) : SubSeq(hay, i, j) = needle

\* The non-empty ones of the given fields, lower-cased, with one space between.
FieldText(fields) ==
  toLowerCase(join(SelectSeq(fields, LAMBDA f : f # <<>>), <<" ">>))

\* C17 (as stated) For a non-empty filter text, the projection of each column
\* keeps exactly the buffer items whose lower-cased title, summary, author and
\* tags contain the lower-cased filter text, and no other item.
C17_FilterTitleSummaryAuthorTags ==
  globalSearch # <<>>
  => \A c \in DOMAIN visibleByColumn :
       visibleByColumn[c] =
         SelectSeq(store[c].items,
                   LAMBDA it : Contains(FieldText(<<it.title, it.summary, it.author,
                                                    join(it.tags, <<" ">>)>>),
                                        toLowerCase(globalSearch)))

\* C17 (amended) For a filter text that is not empty once trimmed, the
\* projection of each column keeps, in buffer order, exactly the buffer items
\* whose lower-cased title, summary, author, subreddit, host and tags (the
\* non-empty ones, a space between) contain the trimmed, lower-cased text.
C17_FilterEveryTextField ==
  trim(globalSearch) # <<>>
  => \A c \in DOMAIN visibleByColumn :
       visibleByColumn[c] =
         SelectSeq(store[c].items,
                   LAMBDA it : Contains(FieldText(<<it.title, it.summary, it.author,
                                                    it.subreddit, it.host,
                                                    join(it.tags, <<" ">>)>>),
                                        toLowerCase(trim(globalSearch))))

\* A filter text kept one of two items because of its host alone.
C17_Witness ==
  /\ trim(globalSearch) # <<>>
  /\ \E c \in DOMAIN visibleByColumn :
       /\ Len(store[c].items) = 2
       /\ Len(visibleByColumn[c]) = 1
       /\ visibleByColumn[c][1].host # <<>>
       /\ ~Contains(toLowerCase(visibleByColumn[c][1].title), toLowerCase(trim(globalSearch)))

\* C18 With an empty filter text the projection has one entry per column of
\* the board, and each entry is the column's buffer: every item, in the order
\* in which the responses appended them.
C18_EmptyFilterPassesThrough ==
  globalSearch = <<>>
  => /\ DOMAIN visibleByColumn = {c \in Ids : InColumns(c)}
     /\ \A c \in DOMAIN visibleByColumn : visibleByColumn[c] = store[c].items

C18_Witness ==
  /\ globalSearch = <<>>
  /\ \E c \in Ids : InColumns(c) /\ Len(store[c].items) > PageLen

ClampBound(adapter) ==
  IF adapter = "hn" THEN HNClamp
  ELSE IF adapter = "reddit" THEN RedditClamp
  ELSE NasaClamp

\* C21 The summary of every item an adapter emits is no longer than the
\* adapter's clamp bound and has no two white-space characters in a row.
C21_SummaryClamped ==
  \A i \in DOMAIN emitted :
    /\ Len(emitted[i].summary) <= ClampBound(emitted[i].source)
    /\ \A k \in 1 .. Len(emitted[i].summary) - 1 :
         ~(emitted[i].summary[k] = " " /\ emitted[i].summary[k + 1] = " ")


\* The record the claim describes for a newly activated instance of `type`.
FreshRecord(rec, type) ==
  /\ rec # NoRec
  /\ rec.items = <<>>
  /\ rec.page = 0
  /\ rec.after = NoAfter
  /\ rec.loading = FALSE
  /\ rec.error = ""
  /\ rec.hasMore = (type \in {"hn", "reddit"})

\* C22 Activating a source creates the record of the new instance (there was
\* none before the call) with an empty buffer, the initial cursor, loading
\* false, no error, and hasMore true for hn and reddit but false for nasa and
\* quote; the records of the instances that existed are left as they were.
C22_ActivateCreatesRecord ==
  [][\A t \in Types, s \in 1 .. NumSuffix :
       addColumn(t, s) =>
         /\ store[<<t, s>>] = NoRec
         /\ FreshRecord(store'[<<t, s>>], t)
         /\ \A id \in Ids \ {<<t, s>>} : store'[id] = store[id]]_vars

\* The step leaves every instance other than x alone: their records are the
\* same, and each of their requests is still in flight and as little aborted
\* as it was.
OthersUntouched(x) ==
  /\ store' = [store EXCEPT ![x] = store'[x]]
  /\ \A r \in inflight :
       r.id # x => r \in inflight' /\ (r.signal < abortRef' <=> Aborted(r))

\* C23 loadMore(x), refreshOne(x) and the completion (success, failure or
\* abort rejection) of a request of x leave the record of every other instance
\* unchanged and cancel no request of another instance. (A step that handles
\* an operation changes ops; a "Load More" click the button does not pass on
\* changes nothing. A completion takes its request out of inflight.)
C23_OneInstanceOperationFrame ==
  [][/\ \A i \in DOMAIN columns :
          \/ ops' = ops
          \/ OthersUntouched(columns[i])
          \/ ~(loadMore(columns[i]) \/ refreshOne(columns[i]))
     /\ \A r \in inflight \ inflight' :
          \/ OthersUntouched(r.id)
          \/ ~(\/ AbortedReject(r)
               \/ Reject(r)
               \/ \E res \in Responses(r) : Resolve(r, res))]_vars

\* A "Load More" of col_reddit is in flight, dispatched after its refresh
\* completed, while the refresh request of col_hn is still in flight.
C23_Witness ==
  /\ \E q \in inflight : q.id = <<"reddit", 0>> /\ q.mode = "more" /\ ~Aborted(q)
  /\ \E r \in inflight : r.id = <<"hn", 0>> /\ r.mode = "refresh" /\ ~Aborted(r)
  /\ store[<<"reddit", 0>>].items # <<>>
  /\ store[<<"hn", 0>>].items = <<>>

\* C24 A record is changed only by the state reset of a refresh and by the
\* completion of a request that is neither stale nor cancelled; so an instance
\* with a request in flight that is not cancelled has loading = true.
C24_InFlightMeansLoading ==
  \A r \in inflight : ~Aborted(r) => store[r.id].loading

\* C25 refreshAll aborts only requests dispatched before it: a request is not
\* aborted in the step that dispatches it (by refreshAll, loadMore or
\* refreshOne), and a request in flight becomes aborted only in a step of
\* refreshAll, which is then a refreshAll later than the request's dispatch.
C25_AbortScopedPerRefresh ==
  [][/\ \A r \in inflight' \ inflight : ~Aborted(r)'
     /\ \A r \in inflight \cap inflight' :
          ~Aborted(r) /\ Aborted(r)' => refreshAll]_vars

\* The second refreshAll has aborted the first one's request of col_hn and
\* has its own request of col_hn in flight, not aborted.
C25_Witness ==
  \E r, q \in inflight :
    /\ r.id = <<"hn", 0>> /\ q.id = <<"hn", 0>>
    /\ r.mode = "refresh" /\ q.mode = "refresh"
    /\ Aborted(r)
    /\ q.signal = abortRef /\ ~Aborted(q)

\* The outcomes of the request r, fixed when it is dispatched: one of the 2xx
\* answers to its cursor, or a failure.
Failure == [failed |-> TRUE]

Outcomes(r) == Responses(r) \cup {Failure}

\* The store after r has completed with outcome o.
Deliver(st, r, o) == IF o = Failure THEN CatchStore(st, r.id) ELSE ApplyStore(st, r, o)

\* C26 The order in which the responses of different instances are delivered
\* does not matter: when the request r completes with outcome o1 while the
\* request q of another instance is in flight, then for every outcome o2 of q
\* the store after "r, then q" is the store after "q, then r". (Any two
\* delivery orders of the requests of a refreshAll differ by such exchanges.)
C26_DeliveryOrderIrrelevant ==
  [][\A r \in inflight \ inflight' :
       \A q \in inflight \cap inflight' :
         r.id # q.id /\ ~Aborted(r) /\ ~Aborted(q) =>
           \A o1 \in Outcomes(r) :
             store' = Deliver(store, r, o1) =>
               \A o2 \in Outcomes(q) :
                 Deliver(store', q, o2) = Deliver(Deliver(store, q, o2), r, o1)]_vars

\* The response of col_hn has been delivered first: its refresh is applied
\* while the refresh request of col_reddit, dispatched by the same
\* refreshAll, is still in flight.
C26_Witness ==
  /\ run[<<"hn", 0>>] = [src |-> "all", st |-> "ok", k |-> 0]
  /\ store[<<"hn", 0>>].items # <<>>
  /\ \E q \in inflight :
       q.id = <<"reddit", 0>> /\ q.mode = "refresh" /\ q.signal = abortRef
  /\ \A q \in inflight : q.id # <<"hn", 0>>

\* The requests the step dispatches.
Dispatched == inflight' \ inflight

\* C27 No adapter call is made without a caller action: a step that
\* dispatches requests is a refreshAll, which dispatches at most one request
\* per column of the board, or a loadMore(c) or refreshOne(c), which
\* dispatches one request, for c. So after a failure (as after any
\* completion) nothing is dispatched until the caller acts again.
C27_NoRetry ==
  [][Dispatched # {} =>
       \/ /\ refreshAll
          /\ \A id \in Ids :
               Cardinality({r \in Dispatched : r.id = id})
                 <= Cardinality({i \in DOMAIN columns : columns[i] = id})
       \/ \E c \in Ids :
            /\ loadMore(c) \/ refreshOne(c)
            /\ \E r \in Dispatched : Dispatched = {r} /\ r.id = c]_vars

\* The refresh request of col_hn has failed; its error is shown and nothing
\* is in flight for col_hn.
C27_Witness ==
  /\ run[<<"hn", 0>>].st = "fail"
  /\ store[<<"hn", 0>>].error # ""
  /\ ~store[<<"hn", 0>>].loading
  /\ \A r \in inflight : r.id # <<"hn", 0>>

\* C28 fetchHN, called with the page index p (0 for a refresh), returns
\* nextPage = p + 1, and hasMore = true exactly when the answer carries a
\* page count that is greater than p + 1.
C28_NewsCursor ==
  returned.adapter = "fetchHN" =>
    LET p == payload.request.cursor
        nbPages == payload.data.nbPages
    IN /\ payload.request.mode = "refresh" => p = 0
       /\ returned.result.next = p + 1
       /\ returned.result.hasMore <=> (nbPages.isNumber /\ nbPages.value > p + 1)

\* A later page has been fetched and more pages follow it.
C28_Witness ==
  /\ returned.adapter = "fetchHN"
  /\ payload.request.mode = "more"
  /\ payload.request.cursor > 0
  /\ returned.result.hasMore

\* C29 fetchReddit sends the token the column holds from the previous answer
\* and none on the first page; it returns the token of the answer it got
\* (null when there is none) and hasMore = true exactly when that token is
\* present. The query filter only takes items out of the listing: a page of
\* which nothing is left has the same token and the same hasMore.
C29_ForumCursor ==
  returned.adapter = "fetchReddit" =>
    LET r == payload.request
        token == payload.data.after
        present == token \notin {NoAfter, UndefinedAfter}
    IN /\ IF r.mode = "more" /\ r.cursor # NoAfter
          THEN "after" \in DOMAIN returned.sent /\ returned.sent.after = r.cursor
          ELSE "after" \notin DOMAIN returned.sent
       /\ returned.result.next = IF present THEN token ELSE NoAfter
       /\ returned.result.hasMore <=> present
       /\ \A i \in DOMAIN returned.result.items :
            \E j \in DOMAIN payload.data.children :
              returned.result.items[i] = payload.data.children[j]

\* A later page of which the query leaves nothing, with a token for the next.
C29_Witness ==
  /\ returned.adapter = "fetchReddit"
  /\ payload.request.mode = "more"
  /\ payload.request.cursor # NoAfter
  /\ payload.data.children # <<>>
  /\ returned.result.items = <<>>
  /\ returned.result.hasMore
  /\ returned.result.next = payload.data.after

\* C30 A nasa or quote column has hasMore = false and at most one item in
\* every state, and a quote column whose refresh has ended without any
\* upstream failing holds exactly one item.
C30_SingleShot ==
  \A c \in Ids :
    (TypeOf(c) \in {"nasa", "quote"} /\ store[c] # NoRec) =>
      /\ ~store[c].hasMore
      /\ Len(store[c].items) <= 1
      /\ (/\ TypeOf(c) = "quote"
          /\ InColumns(c)
          /\ run[c].src \in {"all", "one"}
          /\ run[c].st \in {"ok", "crash"})
         => Len(store[c].items) = 1

\* C31 If every request eventually completes and the user eventually stops
\* (the budget of operations sees to that), then from some time on no column
\* on the board is loading; and a column on the board is loading only while a
\* request of it is in flight.
C31_LoadingEnds ==
  /\ [](\A c \in Ids :
          (InColumns(c) /\ store[c].loading) => \E r \in inflight : r.id = c)
  /\ <>[](\A c \in Ids : InColumns(c) => ~store[c].loading)

\* After a "Load More" the board has come to rest: nothing is in flight and
\* no column is loading.
C31_Witness ==
  /\ Mounted
  /\ inflight = {}
  /\ Len(store[<<"hn", 0>>].items) > PageLen
  /\ \A c \in Ids : InColumns(c) => ~store[c].loading

\* C32 The projection has one entry for each column on the board, and none
\* for a column that has been removed, whatever its record in the store holds
\* (a request that was in flight at the removal may have filled it since).
C32_ProjectionFollowsBoard ==
  /\ Cardinality(DOMAIN visibleByColumn) = Len(columns)
  /\ \A c \in Ids : ~InColumns(c) => c \notin DOMAIN visibleByColumn

\* C33 The ids of the columns on the board are pairwise distinct: no column
\* is added under the id of a column that is on the board, so no two columns
\* share one record of the store.
C33_DistinctColumnIds ==
  \A i, j \in DOMAIN columns : i # j => columns[i] # columns[j]

\* The place of an item in `items`, the base order (ascending id).
BaseIndex(it) == CHOOSE i \in DOMAIN items : items[i] = it

\* The timestamp an item is ordered by: its time, or 0 when it has no date.
SortTime(it) == IF it.date = NoDate THEN 0 ELSE it.date.time

\* The item passes the source filter and the text search: the trimmed,
\* lower-cased search text is empty or occurs in the item's title, summary,
\* author and tags.
Passes(it) ==
  /\ sourceFilter[it.source]
  /\ LET s == toLowerCase(trim(searchText))
     IN s = <<>> \/ Contains(FieldText(<<it.title, it.summary, it.author,
                                         join(it.tags, <<" ">>)>>), s)

\* C34 The visible list of the feed holds every item that passes the source
\* and text filters exactly once and no other, ordered by the sort key:
\* newest by non-increasing time, oldest by non-decreasing time, score by
\* non-increasing score and then non-increasing time, a missing date counting
\* as time 0, and items that tie in the order they have in `items`.
C34_ViewSortedPermutation ==
  /\ \A i, j \in DOMAIN view : i # j => view[i] # view[j]
  /\ {view[i] : i \in DOMAIN view} = {it \in {items[i] : i \in DOMAIN items} : Passes(it)}
  /\ \A i, j \in DOMAIN view :
       i < j =>
         LET a == view[i]
             b == view[j]
             before == IF sortBy = "oldest" THEN SortTime(a) < SortTime(b)
                       ELSE IF sortBy = "score"
                       THEN \/ a.score > b.score
                            \/ a.score = b.score /\ SortTime(a) > SortTime(b)
                       ELSE SortTime(a) > SortTime(b)
             tie == /\ SortTime(a) = SortTime(b)
                    /\ sortBy = "score" => a.score = b.score
         IN before \/ (tie /\ BaseIndex(a) < BaseIndex(b))

\* Sorted by score with a search text that filters an item out: an undated
\* item is shown before an item dated before 1970, and two items that tie
\* are shown next to each other.
C34_Witness ==
  /\ sortBy = "score"
  /\ searchText # <<>>
  /\ Len(view) < Len(items)
  /\ \E i, j \in DOMAIN view :
       /\ i < j
       /\ view[i].score = view[j].score
       /\ view[i].date = NoDate
       /\ view[j].date.valid /\ view[j].date.time < 0
  /\ \E i \in DOMAIN view : i < Len(view) /\ view[i].score = view[i + 1].score
                            /\ SortTime(view[i]) = SortTime(view[i + 1])
====
